---- MODULE Spec2Model ----
\* A model of steam_queue_creator.py: the rate-limited enrichment pipeline of
\* SteamGameProcessor (catalog fetch, library fetch, per-item classification,
\* games log and queue file).  Strings are TLA+ strings, files are their text.
EXTENDS Integers, Sequences, FiniteSets, TLC

\* ---------------------------------------------------------------- strings

Lowers == "abcdefghijklmnopqrstuvwxyz"
Uppers == "ABCDEFGHIJKLMNOPQRSTUVWXYZ"

LetterIndex(alphabet, c) ==
  IF \E i \in 1..Len(alphabet) : SubSeq(alphabet, i, i) = c
  THEN CHOOSE i \in 1..Len(alphabet) : SubSeq(alphabet, i, i) = c
  ELSE 0

\* str.lower() and str.upper() on one character
LowerChar(c) ==
  LET i == LetterIndex(Uppers, c) IN IF i = 0 THEN c ELSE SubSeq(Lowers, i, i)

UpperChar(c) ==
  LET i == LetterIndex(Lowers, c) IN IF i = 0 THEN c ELSE SubSeq(Uppers, i, i)

RECURSIVE Lower(_)
Lower(s) == IF s = "" THEN "" ELSE LowerChar(SubSeq(s, 1, 1)) \o Lower(Tail(s))

\* str.capitalize(): first character upper-cased, the rest lower-cased
Capitalize(s) ==
  IF s = "" THEN "" ELSE UpperChar(SubSeq(s, 1, 1)) \o Lower(Tail(s))

\* s[:n]
Take(s, n) == SubSeq(s, 1, IF n < Len(s) THEN n ELSE Len(s))

StartsWith(s, p) == Len(p) <= Len(s) /\ SubSeq(s, 1, Len(p)) = p

EndsWith(s, p) ==
  Len(p) <= Len(s) /\ SubSeq(s, Len(s) - Len(p) + 1, Len(s)) = p

\* the first position from i on where sub occurs in s, 0 when none
RECURSIVE FindFrom(_, _, _)
FindFrom(s, sub, i) ==
  IF i + Len(sub) - 1 > Len(s) THEN 0
  ELSE IF SubSeq(s, i, i + Len(sub) - 1) = sub THEN i
  ELSE FindFrom(s, sub, i + 1)

\* str.find(sub) + 1: the first position where sub occurs in s, 0 when none
IndexOf(s, sub) == FindFrom(s, sub, 1)

\* the Python expression  sub in s
Contains(sub, s) == IndexOf(s, sub) # 0

\* s.split(sep)[0]
SplitFirst(s, sep) ==
  LET i == IndexOf(s, sep) IN IF i = 0 THEN s ELSE SubSeq(s, 1, i - 1)

\* the characters str.strip() removes (those str.isspace() holds for) among the
\* 256 a string of the model can hold: the space, \t, \n, \x0b, \f, \r,
\* \x1c to \x1f, \x85 and \xa0
Whitespace == " \t\n\f\r "

CharsOf(s) == {SubSeq(s, i, i) : i \in 1..Len(s)}

WhitespaceChars == CharsOf(Whitespace)

IsSpace(c) == c \in WhitespaceChars

RECURSIVE LStrip(_)
LStrip(s) ==
  IF s # "" /\ IsSpace(SubSeq(s, 1, 1)) THEN LStrip(Tail(s)) ELSE s

RECURSIVE RStrip(_)
RStrip(s) ==
  IF s # "" /\ IsSpace(SubSeq(s, Len(s), Len(s)))
  THEN RStrip(SubSeq(s, 1, Len(s) - 1)) ELSE s

\* str.strip()
Strip(s) == RStrip(LStrip(s))

\* the characters from \x80 to \xff: of the 256 a string of the model can
\* hold, those that 'ascii' cannot encode
NonAscii == " ¡¢£¤¥¦§¨©ª«¬­®¯°±²³´µ¶·¸¹º»¼½¾¿ÀÁÂÃÄÅÆÇÈÉÊËÌÍÎÏÐÑÒÓÔÕÖ×ØÙÚÛÜÝÞßàáâãäåæçèéêëìíîïðñòóôõö÷øùúûüýþÿ"

NonAsciiChars == CharsOf(NonAscii)

\* the character is one of the 128 of ASCII, control characters included
IsAscii(c) == c \notin NonAsciiChars

\* s.encode('ascii', 'ignore').decode('ascii'): the non-ASCII characters dropped
RECURSIVE AsciiIgnore(_)
AsciiIgnore(s) ==
  IF s = "" THEN ""
  ELSE (IF IsAscii(SubSeq(s, 1, 1)) THEN SubSeq(s, 1, 1) ELSE "")
       \o AsciiIgnore(Tail(s))

\* sep.join(parts)
RECURSIVE Join(_, _)
Join(parts, sep) ==
  IF parts = <<>> THEN ""
  ELSE IF Len(parts) = 1 THEN parts[1]
  ELSE parts[1] \o sep \o Join(Tail(parts), sep)

\* the characters that end a line of a file opened in text mode
LineEnds == {"\n", "\r"}

\* the first position from i on where a line of the text ends, 0 when none
RECURSIVE LineEnd(_, _)
LineEnd(text, i) ==
  IF i > Len(text) THEN 0
  ELSE IF SubSeq(text, i, i) \in LineEnds THEN i
  ELSE LineEnd(text, i + 1)

\* iterating a file opened with open(..., 'r') (universal newlines): the lines
\* of the text in order, each ended by "\n" when it has an end, where "\r\n"
\* and each other "\r" end a line as "\n" does
RECURSIVE FileLines(_)
FileLines(data) ==
  IF data = "" THEN <<>>
  ELSE LET i == LineEnd(data, 1)
       IN  IF i = 0 THEN <<data>>
           ELSE LET last == IF /\ i < Len(data)
                               /\ SubSeq(data, i, i + 1) = "\r\n"
                            THEN i + 1 ELSE i
                IN  <<SubSeq(data, 1, i - 1) \o "\n">>
                    \o FileLines(SubSeq(data, last + 1, Len(data)))

SeqToSet(q) == {q[i] : i \in 1..Len(q)}

RECURSIVE SelectLines(_)
\* the lines of a sequence that are not blank:  [l for l in f if l.strip()]
SelectLines(ls) ==
  IF ls = <<>> THEN <<>>
  ELSE (IF Strip(ls[1]) # "" THEN <<ls[1]>> ELSE <<>>) \o SelectLines(Tail(ls))

\* a file of the working directory: whether it exists, and its text
NoFile == [exists |-> FALSE, data |-> ""]
TextFile(text) == [exists |-> TRUE, data |-> text]

\* {line.split(' #')[0] for line in f if line.strip()}, the empty set when the
\* file does not exist
IdsOfFile(file) ==
  IF ~file.exists THEN {}
  ELSE {SplitFirst(l, " #") : l \in SeqToSet(SelectLines(FileLines(file.data)))}

\* ---------------------------------------------------------------- bounds

\* how many times the program is started
MaxRuns == 2
\* the longest a request takes, and the longest time.sleep oversleeps (ticks)
MaxDelay == 2
MaxOversleep == 1

\* time.time() when the n-th process starts: far from 0 and from the other runs
RunEpoch == 1000
ClockAt(n) == n * RunEpoch

\* ---------------------------------------------------------------- settings

PlatformTable == <<<<"windows", "win64">>, <<"mac", "macos">>, <<"linux", "lin64">>>>
PlatformNames == {PlatformTable[i][1] : i \in 1..Len(PlatformTable)}

PlatformFlags == [PlatformNames -> BOOLEAN]

\* platform.capitalize()[:3] for each platform of the table
Abbreviation == [p \in PlatformNames |-> Take(Capitalize(p), 3)]

AllPlatforms == [p \in PlatformNames |-> TRUE]
WindowsOnly == [p \in PlatformNames |-> p = "windows"]

\* settings.json, the fields the pipeline reads
MakeSettings(plat, filter, fromFile, testMode, testLimit, rateLimit, verbose) ==
  [platforms |-> plat, filter_denuvo |-> filter, queue_from_file |-> fromFile,
   test_mode |-> testMode, test_limit |-> testLimit, rate_limit |-> rateLimit,
   verbose_logging |-> verbose]

\* ---------------------------------------------------------------- rate limiter

\* the mutant of C4: the wait is skipped
EnforceRateLimitNoSleep(t, last, rateLimit, over) == t

\* _enforce_rate_limit: the time at which last_request_time is set, for a call
\* made at time t; time.sleep returns after the asked time plus `over`
EnforceRateLimit(t, last, rateLimit, over) ==
  LET elapsed == t - last
  IN  IF elapsed < rateLimit THEN t + (rateLimit - elapsed) + over ELSE t

\* a message _log is called with: the key of a language string, or a name for
\* a literal message, and what the message is formatted with
Msg(key, args) == [key |-> key, args |-> args]

\* _enforce_rate_limit with verbose_logging: "Rate limit: waiting ...s", logged
\* before the sleep
RateLimitNotes(s, t, last) ==
  IF s.verbose_logging /\ t - last < s.rate_limit
  THEN <<Msg("rate_limit_wait", <<s.rate_limit - (t - last)>>)>>
  ELSE <<>>

\* ---------------------------------------------------------------- classifier

DenuvoSignature == "Denuvo Anti-tamper"

FailureKinds == {"timeout", "malformed", "absent", "failure", "bad_platforms"}

\* the failures that raise inside the try of get_platforms
RaisingKinds == {"timeout", "malformed", "bad_platforms"}

\* the replies for which get_platforms reaches line 169, the "Game: ..." message
DescribedKinds == {"success", "bad_platforms"}

\* a reply of the appdetails endpoint: a request that raises (timeout), a body
\* that is no JSON (malformed), a body without the identifier (absent), an entry
\* with success false (failure), or an entry with success true and its data;
\* name_str is str(app_data.get('name')), what an f-string shows of the name
Detail(kind, plats, free, hasNotice, notice, hasName, name) ==
  [kind |-> kind, platforms |-> plats, is_free |-> free,
   has_notice |-> hasNotice, drm_notice |-> notice,
   has_name |-> hasName, name |-> name, name_is_str |-> TRUE,
   name_str |-> IF hasName THEN name ELSE "None"]

\* the reply whose "name" is no string (a number, a list, null), shown as
\* `shown` by str()
NonStringName(detail, shown) ==
  [detail EXCEPT !.has_name = TRUE, !.name = "", !.name_is_str = FALSE,
                 !.name_str = shown]

\* the reply with "name": null in its data
NullName(detail) == NonStringName(detail, "None")

\* the reply with success true whose "platforms" is no dict (a list, null):
\* platforms.get raises at line 176, after the "Game: ..." message
BadPlatforms(detail) ==
  [detail EXCEPT !.kind = "bad_platforms", !.platforms = {}]

FailedDetail(kind) == Detail(kind, {}, FALSE, FALSE, "", FALSE, "")

\* the triple get_platforms returns at its end: 'Unknown', [], str(app_id)
UnknownClassification(app_id) ==
  [platforms_str |-> "Unknown", queue_platforms |-> <<>>, name |-> app_id,
   name_is_str |-> TRUE]

\* has_denuvo of get_platforms
HasDenuvo(detail) ==
  detail.has_notice /\ Contains(DenuvoSignature, detail.drm_notice)

RECURSIVE CheckPlatformsFreeQueued(_, _, _, _)
\* the mutant of C9: the loop without the test of is_free
CheckPlatformsFreeQueued(i, detail, settings, has_denuvo) ==
  IF i > Len(PlatformTable) THEN <<<<>>, <<>>>>
  ELSE LET platform == PlatformTable[i][1]
           enabled == PlatformTable[i][2]
           rest == CheckPlatformsFreeQueued(i + 1, detail, settings, has_denuvo)
       IN  IF platform \in detail.platforms /\ settings.platforms[platform]
           THEN <<
             <<Abbreviation[platform]>> \o rest[1],
             (IF ~has_denuvo \/ ~settings.filter_denuvo
              THEN <<enabled>> ELSE <<>>) \o rest[2] >>
           ELSE rest

RECURSIVE CheckPlatformsAlwaysFilters(_, _, _, _)
\* the mutant of C13: the loop filters DRM titles whatever filter_denuvo says
CheckPlatformsAlwaysFilters(i, detail, settings, has_denuvo) ==
  IF i > Len(PlatformTable) THEN <<<<>>, <<>>>>
  ELSE LET platform == PlatformTable[i][1]
           enabled == PlatformTable[i][2]
           rest == CheckPlatformsAlwaysFilters(i + 1, detail, settings, has_denuvo)
       IN  IF platform \in detail.platforms /\ settings.platforms[platform]
           THEN <<
             <<Abbreviation[platform]>> \o rest[1],
             (IF ~has_denuvo /\ ~detail.is_free
              THEN <<enabled>> ELSE <<>>) \o rest[2] >>
           ELSE rest

RECURSIVE CheckPlatforms(_, _, _, _)
\* the loop of get_platforms over the platform table, from position i:
\* the pair <<available, queue_platforms>>
CheckPlatforms(i, detail, settings, has_denuvo) ==
  IF i > Len(PlatformTable) THEN <<<<>>, <<>>>>
  ELSE LET platform == PlatformTable[i][1]
           enabled == PlatformTable[i][2]
           rest == CheckPlatforms(i + 1, detail, settings, has_denuvo)
       IN  IF platform \in detail.platforms /\ settings.platforms[platform]
           THEN <<
             <<Abbreviation[platform]>> \o rest[1],
             (IF (~has_denuvo \/ ~settings.filter_denuvo) /\ ~detail.is_free
              THEN <<enabled>> ELSE <<>>) \o rest[2] >>
           ELSE rest

\* get_platforms, after the rate limiter: the triple it returns for the reply;
\* name_is_str is false when the name it returns is None (or no string)
get_platforms(app_id, detail, settings) ==
  IF detail.kind # "success" THEN UnknownClassification(app_id)
  ELSE LET has_denuvo == HasDenuvo(detail)
           lists == CheckPlatforms(1, detail, settings, has_denuvo)
       IN  [platforms_str |->
              (IF lists[1] # <<>> THEN Join(lists[1], "/") ELSE "Unknown")
              \o (IF has_denuvo THEN " [DENUVO]" ELSE ""),
            queue_platforms |-> lists[2],
            name |-> IF detail.has_name THEN detail.name ELSE app_id,
            name_is_str |-> ~detail.has_name \/ detail.name_is_str]

\* get_platforms with verbose_logging: "Requesting data for AppID: ...", then
\* "Game: ... | Free: ... | Denuvo: ..." for an entry with success true (the
\* name as str() shows it), then "Error checking platforms for ..." when the
\* request or the parsing raised
DetailNotes(s, app_id, detail) ==
  IF ~s.verbose_logging THEN <<>>
  ELSE <<Msg("requesting_data", <<app_id>>)>>
       \o (IF detail.kind \in DescribedKinds
           THEN <<Msg("game_info",
                      <<detail.name_str, detail.is_free, HasDenuvo(detail)>>)>>
           ELSE <<>>)
       \o (IF detail.kind \in RaisingKinds
           THEN <<Msg("error_checking", <<app_id>>)>>
           ELSE <<>>)

\* ---------------------------------------------------------------- state

VARIABLES
  settings,           \* self.settings
  software_file,      \* files.software_file, the catalog
  games_file,         \* files.games_file, the games log
  queue_file,         \* files.queue_file
  input_file,         \* files.input_file
  now,                \* time.time()
  runs,               \* processes started so far
  pc,                 \* where the running process is
  existing_games,     \* self.existing_games
  last_request_time,  \* self.last_request_time
  software_ids,       \* software_ids of process_games
  games,              \* games of process_games: <<id, name>> in dict order
  game_ids,           \* the work list
  total_games,        \* total_games of _process_games_list
  start_time,         \* start_time of _process_games_list
  next_item,          \* position of the for loop in game_ids
  processed_count,
  denuvo_count,
  games_list,
  queue_data,
  log,                \* what _log was called with in this process
  calls,              \* history: the outbound calls of this process
  classified,         \* history: the last get_platforms call of this process
  run_start,          \* history: the files when this process started
  catalog_runs,       \* history: the get_software calls that wrote the catalog
  eligible,           \* history: the <<code, id>> pairs get_platforms returned
  recorded,           \* history: identifiers logged as Unknown or with queue lines
  visited             \* history: the states this process went through

vars == <<settings, software_file, games_file, queue_file, input_file, now, runs,
          pc, existing_games, last_request_time, software_ids, games, game_ids,
          total_games, start_time, next_item, processed_count, denuvo_count,
          games_list, queue_data, log, calls, classified, run_start,
          catalog_runs, eligible, recorded, visited>>

disk == <<software_file, games_file, queue_file, input_file>>
locals == <<software_ids, games, game_ids, total_games, start_time, next_item,
            processed_count, denuvo_count, games_list, queue_data>>

Stopped == {"Idle", "Done", "Error", "Killed"}

\* the process moves to a state of the pipeline
Goto(state) == pc' = state /\ visited' = Append(visited, state)

\* one outbound call: which endpoint, for which identifier, when the limiter was
\* entered, when it let the request start
Call(kind, app_id, entered, started) ==
  [kind |-> kind, app_id |-> app_id, entered |-> entered, started |-> started]

\* a reply of a listing endpoint: the request raised, or the pairs re.findall
\* extracts from its text
Raised == [raised |-> TRUE, entries |-> <<>>]
Listing(entries) == [raised |-> FALSE, entries |-> entries]

\* ---------------------------------------------------------------- helpers

\* s.replace(old, "")
RECURSIVE Remove(_, _)
Remove(s, old) ==
  LET i == IndexOf(s, old)
  IN  IF i = 0 THEN s
      ELSE SubSeq(s, 1, i - 1) \o Remove(SubSeq(s, i + Len(old), Len(s)), old)

RECURSIVE DictPut(_, _, _)
\* d[k] = v on a dict kept as <<key, value>> pairs in insertion order
DictPut(d, k, v) ==
  IF d = <<>> THEN <<<<k, v>>>>
  ELSE IF d[1][1] = k THEN <<<<k, v>>>> \o Tail(d)
  ELSE <<d[1]>> \o DictPut(Tail(d), k, v)

RECURSIVE GamesDict(_, _)
\* {id: name.replace('<![CDATA[', '').replace(']]>', '') for id, name in games}
GamesDict(pairs, d) ==
  IF pairs = <<>> THEN d
  ELSE GamesDict(Tail(pairs),
                 DictPut(d, pairs[1][1],
                         Remove(Remove(pairs[1][2], "<![CDATA["), "]]>")))

Keys(d) == [i \in 1..Len(d) |-> d[i][1]]

RECURSIVE AppendNewRepeats(_, _)
\* the mutant of C8: the loop does not record what it has written
AppendNewRepeats(new_entries, existing_ids) ==
  IF new_entries = <<>> THEN [text |-> "", ids |-> existing_ids]
  ELSE LET app_id == new_entries[1][1]
           clean_name == AsciiIgnore(new_entries[1][2])
           rest == AppendNewRepeats(Tail(new_entries), existing_ids)
       IN  IF app_id \notin existing_ids
           THEN [text |-> app_id \o " #" \o clean_name \o "\n" \o rest.text,
                 ids |-> rest.ids \cup {app_id}]
           ELSE rest

RECURSIVE AppendNew(_, _)
\* the writing loop of get_software: the text appended and the identifiers known
AppendNew(new_entries, existing_ids) ==
  IF new_entries = <<>> THEN [text |-> "", ids |-> existing_ids]
  ELSE LET app_id == new_entries[1][1]
           clean_name == AsciiIgnore(new_entries[1][2])
       IN  IF app_id \notin existing_ids
           THEN LET rest == AppendNew(Tail(new_entries), existing_ids \cup {app_id})
                IN  [text |-> app_id \o " #" \o clean_name \o "\n" \o rest.text,
                     ids |-> rest.ids]
           ELSE AppendNew(Tail(new_entries), existing_ids)

\* the mutant of C7: the catalog is not excluded
WorkListNoCatalog(library, software, existing) ==
  LET Wanted(game_id) == game_id \notin existing
  IN  SelectSeq(Keys(library), Wanted)

\* the mutant of C1: the games log is not excluded
WorkListNoResume(library, software, existing) ==
  LET Wanted(game_id) == game_id \notin software
  IN  SelectSeq(Keys(library), Wanted)

\* the work list of process_games
WorkList(library, software, existing) ==
  LET Wanted(game_id) == game_id \notin software /\ game_id \notin existing
  IN  SelectSeq(Keys(library), Wanted)

\* game_ids of process_queue_from_file
InputIds(file) ==
  LET ls == SelectLines(FileLines(file.data))
  IN  [i \in 1..Len(ls) |-> Strip(SplitFirst(ls[i], "#"))]

\* the mutant of C5: the limit test with > for >=
LimitReachedLate(s, processed) == s.test_mode /\ processed > s.test_limit

\* the test at the head of the loop of _process_games_list
LimitReached(s, processed) == s.test_mode /\ processed >= s.test_limit

\* the mutant of C19: the test limit is left out of the total
TotalGamesIgnoresLimit(ids, s) == Len(ids)

\* total_games of _process_games_list
TotalGames(ids, s) ==
  IF s.test_mode
  THEN (IF Len(ids) < s.test_limit THEN Len(ids) ELSE s.test_limit)
  ELSE Len(ids)

\* the mutant of C14: the loop is entered without the blocking input()
EnterProcessGamesListNoGate(ids, msgs) ==
  /\ game_ids' = ids
  /\ total_games' = TotalGames(ids, settings)
  /\ log' = log \o msgs \o
            <<Msg("processing_ready", <<TotalGames(ids, settings)>>),
              Msg("estimated_time",
                  <<TotalGames(ids, settings) * settings.rate_limit>>)>>
  /\ Goto("Running")

\* the head of _process_games_list, up to the blocking input()
EnterProcessGamesList(ids, msgs) ==
  /\ game_ids' = ids
  /\ total_games' = TotalGames(ids, settings)
  /\ log' = log \o msgs \o
            <<Msg("processing_ready", <<TotalGames(ids, settings)>>),
              Msg("estimated_time",
                  <<TotalGames(ids, settings) * settings.rate_limit>>)>>
  /\ Goto("AwaitingConfirmation")

\* ---------------------------------------------------------------- actions

\* main(): SteamGameProcessor() is constructed and process_games() is entered
NewProcess(fromFile, testMode) ==
  /\ pc \in Stopped
  /\ runs' = runs + 1
  /\ settings' = [settings EXCEPT !.queue_from_file = fromFile,
                                  !.test_mode = testMode]
  /\ now' = ClockAt(runs + 1)
  /\ existing_games' = IdsOfFile(games_file)
  /\ last_request_time' = 0
  /\ pc' = "ComputingWorkList"
  /\ visited' = <<"ComputingWorkList">>
  /\ eligible' = {}
  /\ software_ids' = {}
  /\ games' = <<>>
  /\ game_ids' = <<>>
  /\ total_games' = 0
  /\ start_time' = 0
  /\ next_item' = 1
  /\ processed_count' = 0
  /\ denuvo_count' = 0
  /\ games_list' = <<>>
  /\ queue_data' = <<>>
  /\ log' = <<>>
  /\ calls' = <<>>
  /\ classified' = <<>>
  /\ run_start' = [software_file |-> software_file, games_file |-> games_file,
                   queue_file |-> queue_file]
  /\ recorded' = {[r EXCEPT !.current = FALSE] : r \in recorded}
  /\ UNCHANGED <<disk, catalog_runs>>

\* the program is started, at most MaxRuns times
StartProcess(fromFile, testMode) ==
  runs < MaxRuns /\ NewProcess(fromFile, testMode)

\* process_games, normal mode: get_software()
GetSoftware(reply, delay, over) ==
  /\ pc = "ComputingWorkList"
  /\ ~settings.queue_from_file
  /\ LET existing_ids == IdsOfFile(software_file)
         started == EnforceRateLimit(now, last_request_time,
                                     settings.rate_limit, over)
         added == AppendNew(reply.entries, existing_ids)
     IN  /\ last_request_time' = started
         /\ now' = started + delay
         /\ calls' = Append(calls, Call("catalog", "", now, started))
         /\ IF reply.raised
            THEN /\ log' = log \o <<Msg("start_processing", <<>>)>>
                           \o RateLimitNotes(settings, now, last_request_time)
                           \o <<Msg("error", <<>>)>>
                 /\ Goto("Error")
                 /\ UNCHANGED <<software_file, software_ids, catalog_runs>>
            ELSE /\ software_file' = TextFile(software_file.data \o added.text)
                 /\ software_ids' = added.ids
                 /\ catalog_runs' =
                      Append(catalog_runs,
                             [run |-> runs, entries |-> reply.entries,
                              before |-> software_file,
                              after |-> TextFile(software_file.data \o added.text)])
                 /\ log' = log \o <<Msg("start_processing", <<>>)>>
                           \o RateLimitNotes(settings, now, last_request_time)
                 /\ Goto("FetchingGames")
  /\ UNCHANGED <<settings, games_file, queue_file, input_file, runs,
                 existing_games, games, game_ids, total_games, start_time,
                 next_item, processed_count, denuvo_count, games_list,
                 queue_data, classified, run_start,
                 eligible, recorded>>

\* process_games, normal mode: get_games(), the work list, and the head of
\* _process_games_list
GetGames(reply, delay, over) ==
  /\ pc = "FetchingGames"
  /\ LET started == EnforceRateLimit(now, last_request_time,
                                     settings.rate_limit, over)
         library == GamesDict(reply.entries, <<>>)
         requesting == <<Msg("fetching_games", <<>>)>>
                       \o RateLimitNotes(settings, now, last_request_time)
                       \o (IF settings.verbose_logging
                           THEN <<Msg("requesting_games", <<>>)>> ELSE <<>>)
     IN  /\ last_request_time' = started
         /\ now' = started + delay
         /\ calls' = Append(calls, Call("library", "", now, started))
         /\ IF reply.raised
            THEN /\ log' = log \o requesting \o <<Msg("error", <<>>)>>
                 /\ Goto("Error")
                 /\ UNCHANGED <<games, game_ids, total_games>>
            ELSE /\ games' = library
                 /\ EnterProcessGamesList(
                      WorkList(library, software_ids, existing_games),
                      requesting \o <<Msg("found_games", <<Len(library)>>)>>)
  /\ UNCHANGED <<settings, disk, runs, existing_games, software_ids, start_time,
                 next_item, processed_count, denuvo_count, games_list,
                 queue_data, classified, run_start, catalog_runs,
                 eligible, recorded>>

\* the mutant of C17: a missing input file is taken for one without entries
ProcessQueueFromFileNoCheck ==
  /\ pc = "ComputingWorkList"
  /\ settings.queue_from_file
  /\ IF InputIds(input_file) = <<>>
     THEN /\ log' = log \o <<Msg("fetching_games", <<>>), Msg("no_games", <<>>)>>
          /\ Goto("Done")
          /\ UNCHANGED <<game_ids, total_games>>
     ELSE EnterProcessGamesList(
            InputIds(input_file),
            <<Msg("fetching_games", <<>>),
              Msg("found_games", <<Len(InputIds(input_file))>>)>>)
  /\ UNCHANGED <<settings, disk, now, runs, existing_games, last_request_time,
                 software_ids, games, start_time, next_item, processed_count,
                 denuvo_count, games_list, queue_data, calls, classified,
                 run_start, catalog_runs,
                 eligible, recorded>>

\* process_games, file mode: process_queue_from_file() and the head of
\* _process_games_list
ProcessQueueFromFile ==
  /\ pc = "ComputingWorkList"
  /\ settings.queue_from_file
  /\ IF ~input_file.exists
     THEN /\ log' = Append(log, Msg("error", <<>>))
          /\ Goto("Error")
          /\ UNCHANGED <<game_ids, total_games>>
     ELSE IF InputIds(input_file) = <<>>
     THEN /\ log' = log \o <<Msg("fetching_games", <<>>), Msg("no_games", <<>>)>>
          /\ Goto("Done")
          /\ UNCHANGED <<game_ids, total_games>>
     ELSE EnterProcessGamesList(
            InputIds(input_file),
            <<Msg("fetching_games", <<>>),
              Msg("found_games", <<Len(InputIds(input_file))>>)>>)
  /\ UNCHANGED <<settings, disk, now, runs, existing_games, last_request_time,
                 software_ids, games, start_time, next_item, processed_count,
                 denuvo_count, games_list, queue_data, calls, classified,
                 run_start, catalog_runs,
                 eligible, recorded>>

\* _process_games_list: input() returns, after the user has taken `wait`
\* ticks to press Enter
Confirm(wait) ==
  /\ pc = "AwaitingConfirmation"
  /\ now' = now + wait
  /\ start_time' = now + wait
  /\ Goto("Running")
  /\ UNCHANGED <<settings, disk, runs, existing_games, last_request_time,
                 software_ids, games, game_ids, total_games, next_item,
                 processed_count, denuvo_count, games_list, queue_data, log,
                 calls, classified, run_start, catalog_runs,
                 eligible, recorded>>

\* _process_games_list: input() raises EOFError, which the caller logs
ConfirmEOF ==
  /\ pc = "AwaitingConfirmation"
  /\ log' = Append(log, Msg("error", <<>>))
  /\ Goto("Error")
  /\ UNCHANGED <<settings, disk, now, runs, existing_games, last_request_time,
                 locals, calls, classified, run_start, catalog_runs,
                 eligible, recorded>>

\* the mutant of C20: an item whose fetch failed is counted but not recorded
ProcessGameDropsFailed(detail, delay, over) ==
  /\ pc = "Running"
  /\ next_item <= Len(game_ids)
  /\ ~LimitReached(settings, processed_count)
  /\ LET game_id == game_ids[next_item]
         started == EnforceRateLimit(now, last_request_time,
                                     settings.rate_limit, over)
         r == get_platforms(game_id, detail, settings)
         clean_name == AsciiIgnore(r.name)
         said == (IF processed_count > 0
                  THEN <<Msg("progress", <<processed_count, total_games,
                                           denuvo_count, now - start_time>>)>>
                  ELSE <<>>)
                 \o RateLimitNotes(settings, now, last_request_time)
                 \o DetailNotes(settings, game_id, detail)
     IN  /\ last_request_time' = started
         /\ now' = started + delay
         /\ calls' = Append(calls, Call("detail", game_id, now, started))
         /\ classified' = <<[app_id |-> game_id, detail |-> detail, result |-> r,
                              queue_before |-> queue_data]>>
         /\ eligible' = eligible \cup
                         {<<r.queue_platforms[i], game_id>> :
                            i \in 1..Len(r.queue_platforms)}
         /\ denuvo_count' = IF Contains("[DENUVO]", r.platforms_str)
                            THEN denuvo_count + 1 ELSE denuvo_count
         /\ IF r.name_is_str
            THEN /\ log' = log \o said
                 /\ games_list' = IF detail.kind \in FailureKinds THEN games_list
                             ELSE Append(games_list,
                                         game_id \o " #" \o clean_name \o " ["
                                         \o r.platforms_str \o "]")
                 /\ queue_data' = queue_data \o
                      [i \in 1..Len(r.queue_platforms) |->
                         r.queue_platforms[i] \o "|" \o game_id \o "|Public|"]
                 /\ processed_count' = processed_count + 1
                 /\ next_item' = next_item + 1
                 /\ UNCHANGED <<pc, visited>>
            ELSE \* game_name.encode raises; the caller logs the error and returns
                 /\ log' = log \o said \o <<Msg("error", <<>>)>>
                 /\ Goto("Error")
                 /\ UNCHANGED <<games_list, queue_data, processed_count,
                                next_item>>
  /\ UNCHANGED <<settings, disk, runs, existing_games, software_ids, games,
                 game_ids, total_games, start_time, run_start, catalog_runs,
                 recorded>>

\* the loop of _process_games_list: one item is fetched and classified; a name
\* that is no string makes line 278 raise, which ends the run in Error
ProcessGame(detail, delay, over) ==
  /\ pc = "Running"
  /\ next_item <= Len(game_ids)
  /\ ~LimitReached(settings, processed_count)
  /\ LET game_id == game_ids[next_item]
         started == EnforceRateLimit(now, last_request_time,
                                     settings.rate_limit, over)
         r == get_platforms(game_id, detail, settings)
         clean_name == AsciiIgnore(r.name)
         said == (IF processed_count > 0
                  THEN <<Msg("progress", <<processed_count, total_games,
                                           denuvo_count, now - start_time>>)>>
                  ELSE <<>>)
                 \o RateLimitNotes(settings, now, last_request_time)
                 \o DetailNotes(settings, game_id, detail)
     IN  /\ last_request_time' = started
         /\ now' = started + delay
         /\ calls' = Append(calls, Call("detail", game_id, now, started))
         /\ classified' = <<[app_id |-> game_id, detail |-> detail, result |-> r,
                              queue_before |-> queue_data]>>
         /\ eligible' = eligible \cup
                         {<<r.queue_platforms[i], game_id>> :
                            i \in 1..Len(r.queue_platforms)}
         /\ denuvo_count' = IF Contains("[DENUVO]", r.platforms_str)
                            THEN denuvo_count + 1 ELSE denuvo_count
         /\ IF r.name_is_str
            THEN /\ log' = log \o said
                 /\ games_list' = Append(games_list,
                                         game_id \o " #" \o clean_name \o " ["
                                         \o r.platforms_str \o "]")
                 /\ queue_data' = queue_data \o
                      [i \in 1..Len(r.queue_platforms) |->
                         r.queue_platforms[i] \o "|" \o game_id \o "|Public|"]
                 /\ processed_count' = processed_count + 1
                 /\ next_item' = next_item + 1
                 /\ UNCHANGED <<pc, visited>>
            ELSE \* game_name.encode raises; the caller logs the error and returns
                 /\ log' = log \o said \o <<Msg("error", <<>>)>>
                 /\ Goto("Error")
                 /\ UNCHANGED <<games_list, queue_data, processed_count,
                                next_item>>
  /\ UNCHANGED <<settings, disk, runs, existing_games, software_ids, games,
                 game_ids, total_games, start_time, run_start, catalog_runs,
                 recorded>>

\* the loop of _process_games_list: the test limit is reached, the loop breaks
TestLimit ==
  /\ pc = "Running"
  /\ next_item <= Len(game_ids)
  /\ LimitReached(settings, processed_count)
  /\ log' = Append(log, Msg("test_mode_limit", <<settings.test_limit>>))
  /\ Goto("TestLimitReached")
  /\ UNCHANGED <<settings, disk, now, runs, existing_games, last_request_time,
                 locals, calls, classified, run_start, catalog_runs,
                 eligible, recorded>>

\* the loop of _process_games_list: the work list is exhausted
LoopEnd ==
  /\ pc = "Running"
  /\ next_item > Len(game_ids)
  /\ Goto("Completed")
  /\ UNCHANGED <<settings, disk, now, runs, existing_games, last_request_time,
                 locals, log, calls, classified, run_start, catalog_runs,
                 eligible, recorded>>

\* the mutant of C16: the records of Unknown items are left out of the games log
GamesFileAfterOmitsUnknown(file, list, fromFile) ==
  LET Known(entry) == ~EndsWith(entry, " [Unknown]")
      kept == SelectSeq(list, Known)
  IN  IF kept = <<>> THEN file
      ELSE LET mode == IF file.exists /\ ~fromFile THEN "a" ELSE "w"
               text == Join(kept, "\n")
           IN  IF mode = "a"
               THEN TextFile(file.data \o (IF Len(file.data) > 0 THEN "\n" ELSE "")
                             \o text)
               ELSE TextFile(text)

\* the mutant of C12: an existing games log is appended to in file mode too
GamesFileAfterAlwaysAppends(file, list, fromFile) ==
  IF list = <<>> THEN file
  ELSE LET mode == IF file.exists THEN "a" ELSE "w"
           text == Join(list, "\n")
       IN  IF mode = "a"
           THEN TextFile(file.data \o (IF Len(file.data) > 0 THEN "\n" ELSE "")
                         \o text)
           ELSE TextFile(text)

\* the games log after the write of _process_games_list
GamesFileAfter(file, list, fromFile) ==
  IF list = <<>> THEN file
  ELSE LET mode == IF file.exists /\ ~fromFile THEN "a" ELSE "w"
           text == Join(list, "\n")
       IN  IF mode = "a"
           THEN TextFile(file.data \o (IF Len(file.data) > 0 THEN "\n" ELSE "")
                         \o text)
           ELSE TextFile(text)

\* the mutant of C10: the queue file is opened for writing in any case
QueueFileAfterAlways(file, data) == TextFile(Join(data, "\n"))

\* the queue file after the write of _process_games_list
QueueFileAfter(file, data) ==
  IF data # <<>> THEN TextFile(Join(data, "\n")) ELSE file

\* history: what the games-log write of this run adds to `recorded`: an entry
\* for each identifier a normal-mode run logs as Unknown, and for each
\* identifier with accumulated queue lines, which are not on disk yet; the
\* entries of earlier runs are no longer kept once a file-mode run overwrites
\* the log (RecordedAfterTornLog: or is terminated after it has opened it)
RecordedAfterLog ==
  LET LinesOf(id) ==
        {queue_data[k] : k \in {j \in 1..Len(queue_data) :
                                  EndsWith(queue_data[j], "|" \o id \o "|Public|")}}
      Entry(i) ==
        [id |-> game_ids[i],
         unknown |-> ~settings.queue_from_file
                     /\ EndsWith(games_list[i], " [Unknown]"),
         lines |-> LinesOf(game_ids[i]), kept |-> TRUE, current |-> TRUE]
      new == {Entry(i) : i \in {j \in 1..Len(games_list) :
                                  Entry(j).unknown \/ Entry(j).lines # {}}}
      overwrites == games_list # <<>> /\ settings.queue_from_file
  IN  {[r EXCEPT !.kept = r.kept /\ ~overwrites] : r \in recorded} \cup new

\* history: a games-log write that is interrupted adds no entry; the entries
\* of earlier runs are no longer kept when a file-mode run has emptied the log
RecordedAfterTornLog ==
  {[r EXCEPT !.kept = r.kept /\ ~settings.queue_from_file] : r \in recorded}

\* history: the queue write of this run puts the lines of its entries on disk
RecordedAfterQueue ==
  LET Written(r) == IF r.current THEN [r EXCEPT !.lines = {}] ELSE r
  IN  {w \in {Written(r) : r \in recorded} : w.unknown \/ w.lines # {}}

\* the mutant of C15: the games log is also written while the loop runs
WriteGamesLogWhileRunning ==
  /\ pc \in {"Running", "Completed", "TestLimitReached"}
  /\ games_file' = GamesFileAfter(games_file, games_list, settings.queue_from_file)
  /\ log' = IF games_list # <<>>
            THEN Append(log, Msg("added", <<Len(games_list)>>)) ELSE log
  /\ IF pc = "Running" THEN UNCHANGED <<pc, visited>> ELSE Goto("Finalizing")
  /\ UNCHANGED <<settings, software_file, queue_file, input_file, now, runs,
                 existing_games, last_request_time, locals, calls, classified,
                 run_start, catalog_runs,
                 eligible>>

\* _process_games_list: the games log is written
WriteGamesLog ==
  /\ pc \in {"Completed", "TestLimitReached"}
  /\ games_file' = GamesFileAfter(games_file, games_list, settings.queue_from_file)
  /\ log' = IF games_list # <<>>
            THEN Append(log, Msg("added", <<Len(games_list)>>)) ELSE log
  /\ Goto("Finalizing")
  /\ UNCHANGED <<settings, software_file, queue_file, input_file, now, runs,
                 existing_games, last_request_time, locals, calls, classified,
                 run_start, catalog_runs,
                 eligible>>

\* _process_games_list: the queue file is written, or "no games" is logged
WriteQueue ==
  /\ pc = "Finalizing"
  /\ queue_file' = QueueFileAfter(queue_file, queue_data)
  /\ log' = IF queue_data # <<>>
            THEN log \o <<Msg("created_queue", <<Len(queue_data)>>)>>
                 \o (IF denuvo_count > 0
                     THEN <<Msg("skipped_denuvo", <<denuvo_count>>)>>
                     ELSE <<>>)
            ELSE Append(log, Msg("no_games", <<>>))
  /\ Goto("Done")
  /\ UNCHANGED <<settings, software_file, games_file, input_file, now, runs,
                 existing_games, last_request_time, locals, calls, classified,
                 run_start, catalog_runs,
                 eligible>>

\* the host process is gone (an interrupt, a kill): its memory and its console
\* with it; `elapsed` ticks have passed in the statement that was interrupted,
\* which the process reached through `stages`
Terminate(elapsed, stages) ==
  /\ pc' = "Killed"
  /\ visited' = visited \o stages \o <<"Killed">>
  /\ now' = now + elapsed
  /\ existing_games' = {}
  /\ last_request_time' = 0
  /\ software_ids' = {}
  /\ games' = <<>>
  /\ game_ids' = <<>>
  /\ total_games' = 0
  /\ start_time' = 0
  /\ next_item' = 1
  /\ processed_count' = 0
  /\ denuvo_count' = 0
  /\ games_list' = <<>>
  /\ queue_data' = <<>>
  /\ log' = <<>>
  /\ calls' = <<>>
  /\ classified' = <<>>
  /\ UNCHANGED <<settings, input_file, runs, run_start, eligible>>

\* the process is terminated while it runs, outside the statements that write
\* a file (in a sleep, a request, input(), between two statements): the files
\* stay as they are
Interrupt(elapsed) ==
  /\ pc \notin Stopped
  /\ Terminate(elapsed, <<>>)
  /\ UNCHANGED <<software_file, games_file, queue_file, catalog_runs, recorded>>

\* the ticks the statement the process is about to run can take: the wait of
\* the rate limiter and the request of a fetch, or the wait of input()
PendingTicks(delay, over, wait) ==
  IF \/ pc = "ComputingWorkList" /\ ~settings.queue_from_file
     \/ pc = "FetchingGames"
     \/ /\ pc = "Running"
        /\ next_item <= Len(game_ids)
        /\ ~LimitReached(settings, processed_count)
  THEN EnforceRateLimit(now, last_request_time, settings.rate_limit, over)
       - now + delay
  ELSE IF pc = "AwaitingConfirmation" THEN wait
  ELSE 0

\* the process is terminated inside the with block of get_software (lines
\* 207-212), after the limiter and the request of line 204 have taken their
\* time: the catalog is there, with the lines of the first `written` entries
InterruptCatalogWrite(reply, written, delay, over) ==
  /\ pc = "ComputingWorkList"
  /\ ~settings.queue_from_file
  /\ ~reply.raised
  /\ written \in 0..Len(reply.entries)
  /\ LET done == SubSeq(reply.entries, 1, written)
         after == TextFile(software_file.data
                           \o AppendNew(done, IdsOfFile(software_file)).text)
     IN  /\ software_file' = after
         /\ catalog_runs' = Append(catalog_runs,
                                   [run |-> runs, entries |-> done,
                                    before |-> software_file, after |-> after])
  /\ Terminate(EnforceRateLimit(now, last_request_time, settings.rate_limit,
                                over) - now + delay, <<>>)
  /\ UNCHANGED <<games_file, queue_file, recorded>>

\* the games log while the with block of lines 291-294 runs: after open(), which
\* empties it in mode 'w', and after the write of the separator in mode 'a'
TornGamesFiles(file, fromFile) ==
  IF file.exists /\ ~fromFile
  THEN {file} \cup (IF Len(file.data) > 0
                    THEN {TextFile(file.data \o "\n")} ELSE {})
  ELSE {TextFile("")}

\* the process is terminated inside the with block that writes the games log,
\* the first statement of Finalizing
InterruptGamesLogWrite(torn) ==
  /\ pc \in {"Completed", "TestLimitReached"}
  /\ games_list # <<>>
  /\ torn \in TornGamesFiles(games_file, settings.queue_from_file)
  /\ games_file' = torn
  /\ Terminate(0, <<"Finalizing">>)
  /\ UNCHANGED <<software_file, queue_file, catalog_runs>>

\* the process is terminated inside the with block that writes the queue file
\* (lines 299-300): open() has emptied it
InterruptQueueWrite ==
  /\ pc = "Finalizing"
  /\ queue_data # <<>>
  /\ queue_file' = TextFile("")
  /\ Terminate(0, <<>>)
  /\ UNCHANGED <<software_file, games_file, catalog_runs, recorded>>

\* the process is terminated after the queue file is written and closed, while
\* it logs the outcome and returns (lines 301-307, back to main)
InterruptAfterQueueWrite ==
  /\ pc = "Finalizing"
  /\ queue_data # <<>>
  /\ queue_file' = QueueFileAfter(queue_file, queue_data)
  /\ Terminate(0, <<>>)
  /\ UNCHANGED <<software_file, games_file, catalog_runs>>

\* ---------------------------------------------------------------- inputs

\* api.rate_limit of the pipeline's runs, in ticks
RateLimit == 2
\* the values of operation.test_limit
MaxTestLimit == 2

\* the settings of the pipeline's runs: every platform enabled and the DRM
\* filter on, with each test limit; Windows alone, the filter off and verbose
\* logging on
InitialSettings ==
  {MakeSettings(AllPlatforms, TRUE, FALSE, FALSE, limit, RateLimit, FALSE) :
     limit \in 0..MaxTestLimit}
  \cup {MakeSettings(WindowsOnly, FALSE, FALSE, FALSE, MaxTestLimit, RateLimit, TRUE)}

\* the input file with three entries: a comment, a blank line and a repeated
\* identifier
ListedFile == TextFile("101 # first\n\n202\n101\n")

\* the input files: none, blank lines only, the three entries
InputFiles == {NoFile, TextFile("\n"), ListedFile}

\* the configurations the pipeline starts from: every setting with the three
\* entries, the missing and the blank input file with one setting
Configurations ==
  {<<s, ListedFile>> : s \in InitialSettings}
  \cup {<<MakeSettings(AllPlatforms, TRUE, FALSE, FALSE, MaxTestLimit, RateLimit, FALSE), f>> :
          f \in InputFiles}


\* what re.findall extracts from the catalog reply
CatalogReplies ==
  {Raised,
   Listing(<<<<"303", "Edítor">>, <<"303", "Editor II">>>>),
   Listing(<<<<"404", "Sound #1">>>>)}

\* what re.findall extracts from the library reply
LibraryReplies ==
  {Raised,
   Listing(<<>>),
   Listing(<<<<"101", "Alpha">>, <<"303", "Editor">>,
             <<"202", "<![CDATA[Béta]]>">>, <<"101", "Alpha again">>>>)}

PaidGame == Detail("success", {"windows", "linux"}, FALSE, FALSE, "", TRUE, "Alpha")
DenuvoGame ==
  Detail("success", {"windows", "mac", "linux"}, FALSE, TRUE,
         "Uses Denuvo Anti-tamper", TRUE, "Béta")
FreeGame == Detail("success", {"windows"}, TRUE, FALSE, "", FALSE, "")
NamelessGame == NullName(PaidGame)
NumberNamedGame == NonStringName(PaidGame, "5")

\* the store's record of an identifier
StoreRecords(app_id) ==
  CASE app_id = "101" -> {PaidGame, NumberNamedGame}
    [] app_id = "202" -> {DenuvoGame, FreeGame, NamelessGame}
    [] OTHER -> {}

\* the ways the request of a loop iteration fails: each of them at the first
\* item of the work list, a timeout at the others
FailuresAt(position) ==
  IF position = 1 THEN FailureKinds ELSE {"timeout"}

\* the replies of the detail endpoint to the request of a loop iteration: the
\* store's record of the identifier, or one of the failures
DetailReplies(app_id, position) ==
  StoreRecords(app_id) \cup {FailedDetail(k) : k \in FailuresAt(position)}

\* the replies the request of the next loop iteration can get
PendingReplies ==
  IF pc = "Running" /\ next_item <= Len(game_ids)
  THEN DetailReplies(game_ids[next_item], next_item) ELSE {}

\* ---------------------------------------------------------------- pipeline

Init ==
  /\ \E c \in Configurations : settings = c[1] /\ input_file = c[2]
  /\ software_file = NoFile
  /\ games_file = NoFile
  /\ queue_file = NoFile
  /\ now = 0
  /\ runs = 0
  /\ pc = "Idle"
  /\ existing_games = {}
  /\ last_request_time = 0
  /\ software_ids = {}
  /\ games = <<>>
  /\ game_ids = <<>>
  /\ total_games = 0
  /\ start_time = 0
  /\ next_item = 1
  /\ processed_count = 0
  /\ denuvo_count = 0
  /\ games_list = <<>>
  /\ queue_data = <<>>
  /\ log = <<>>
  /\ calls = <<>>
  /\ classified = <<>>
  /\ run_start = [software_file |-> NoFile, games_file |-> NoFile,
                  queue_file |-> NoFile]
  /\ catalog_runs = <<>>
  /\ eligible = {}
  /\ recorded = {}
  /\ visited = <<>>

Next ==
  \/ \E fromFile \in BOOLEAN, testMode \in BOOLEAN : StartProcess(fromFile, testMode)
  \/ \E reply \in CatalogReplies : GetSoftware(reply, 1, 0)
  \/ \E reply \in LibraryReplies : GetGames(reply, 1, 0)
  \/ ProcessQueueFromFile
  \/ Confirm(1)
  \/ ConfirmEOF
  \/ \E detail \in PendingReplies : ProcessGame(detail, 1, 0)
  \/ TestLimit
  \/ LoopEnd
  \/ WriteGamesLog /\ UNCHANGED recorded
  \/ WriteQueue /\ UNCHANGED recorded
  \/ \E elapsed \in 0..PendingTicks(1, 0, 1) : Interrupt(elapsed)
  \/ \E torn \in TornGamesFiles(games_file, settings.queue_from_file) :
       InterruptGamesLogWrite(torn) /\ UNCHANGED recorded
  \/ InterruptQueueWrite
  \/ InterruptAfterQueueWrite /\ UNCHANGED recorded
  \/ \E reply \in CatalogReplies : \E written \in 0..Len(reply.entries) :
       InterruptCatalogWrite(reply, written, 1, 0)

Spec == Init /\ [][Next]_vars

\* ---------------------------------------------------------------- classifier alone

\* the DRM notices of the classifier's inputs
Notices ==
  {"Denuvo Anti-tamper", "DENUVO ANTI-TAMPER", "denuvo anti-tamper",
   "Uses Denuvo Anti-Tamper technology", "Requires 3rd-party DRM: Denuvo Anti-tamper",
   "Steam DRM"}

\* every reply the classifier is given
AllDetails ==
  {FailedDetail(k) : k \in FailureKinds}
  \cup {Detail("success", plats, free, FALSE, "", TRUE, "Alpha") :
          plats \in SUBSET PlatformNames, free \in BOOLEAN}
  \cup {Detail("success", plats, free, TRUE, notice, FALSE, "") :
          plats \in SUBSET PlatformNames, free \in BOOLEAN, notice \in Notices}
  \cup {NullName(PaidGame), NullName(DenuvoGame), NumberNamedGame,
        NonStringName(PaidGame, "['Alpha']"),
        BadPlatforms(PaidGame), BadPlatforms(DenuvoGame)}

ClassifySettings ==
  {MakeSettings(plat, filter, FALSE, FALSE, 0, RateLimit, FALSE) :
     plat \in PlatformFlags, filter \in BOOLEAN}

InitClassify ==
  /\ settings \in ClassifySettings
  /\ input_file = NoFile
  /\ software_file = NoFile
  /\ games_file = NoFile
  /\ queue_file = NoFile
  /\ now = 0
  /\ runs = 0
  /\ pc = "Classifying"
  /\ existing_games = {}
  /\ last_request_time = 0
  /\ software_ids = {}
  /\ games = <<>>
  /\ game_ids = <<>>
  /\ total_games = 0
  /\ start_time = 0
  /\ next_item = 1
  /\ processed_count = 0
  /\ denuvo_count = 0
  /\ games_list = <<>>
  /\ queue_data = <<>>
  /\ log = <<>>
  /\ calls = <<>>
  /\ classified = <<>>
  /\ run_start = [software_file |-> NoFile, games_file |-> NoFile,
                  queue_file |-> NoFile]
  /\ catalog_runs = <<>>
  /\ eligible = {}
  /\ recorded = {}
  /\ visited = <<>>

\* get_platforms is applied to one reply
Classify(app_id, detail, delay, over) ==
  /\ pc = "Classifying"
  /\ classified = <<>>
  /\ LET started == EnforceRateLimit(now, last_request_time,
                                     settings.rate_limit, over)
     IN  /\ last_request_time' = started
         /\ now' = started + delay
         /\ calls' = Append(calls, Call("detail", app_id, now, started))
  /\ log' = log \o RateLimitNotes(settings, now, last_request_time)
                \o DetailNotes(settings, app_id, detail)
  /\ classified' = <<[app_id |-> app_id, detail |-> detail,
                      result |-> get_platforms(app_id, detail, settings),
                      queue_before |-> queue_data]>>
  /\ UNCHANGED <<settings, disk, runs, pc, existing_games, locals, run_start,
                 catalog_runs, eligible, recorded, visited>>

NextClassify ==
  \E app_id \in {"101", "202"}, detail \in AllDetails, delay \in 0..1 :
    Classify(app_id, detail, delay, 0)

SpecClassify == InitClassify /\ [][NextClassify]_vars

\* ---------------------------------------------------------------- timing

\* the values of api.rate_limit in the timed runs, in ticks
MaxRateLimit == 2
\* the longest the user takes to press Enter, in ticks
MaxWait == 1

InitRate ==
  /\ settings \in {MakeSettings(AllPlatforms, TRUE, FALSE, FALSE, 1, limit, FALSE) :
                     limit \in 1..MaxRateLimit}
  /\ input_file = TextFile("101\n202\n")
  /\ software_file = NoFile
  /\ games_file = NoFile
  /\ queue_file = NoFile
  /\ now = 0
  /\ runs = 0
  /\ pc = "Idle"
  /\ existing_games = {}
  /\ last_request_time = 0
  /\ software_ids = {}
  /\ games = <<>>
  /\ game_ids = <<>>
  /\ total_games = 0
  /\ start_time = 0
  /\ next_item = 1
  /\ processed_count = 0
  /\ denuvo_count = 0
  /\ games_list = <<>>
  /\ queue_data = <<>>
  /\ log = <<>>
  /\ calls = <<>>
  /\ classified = <<>>
  /\ run_start = [software_file |-> NoFile, games_file |-> NoFile,
                  queue_file |-> NoFile]
  /\ catalog_runs = <<>>
  /\ eligible = {}
  /\ recorded = {}
  /\ visited = <<>>

\* the pipeline, run to its end, with requests that take 0..MaxDelay ticks and
\* sleeps that overshoot by 0..MaxOversleep ticks
NextRate ==
  \/ \E fromFile \in BOOLEAN, testMode \in BOOLEAN : StartProcess(fromFile, testMode)
  \/ \E reply \in {Raised, Listing(<<<<"303", "Editor">>>>)},
        delay \in 0..MaxDelay, over \in 0..MaxOversleep :
       GetSoftware(reply, delay, over)
  \/ \E reply \in {Raised, Listing(<<<<"101", "Alpha">>>>)},
        delay \in 0..MaxDelay, over \in 0..MaxOversleep :
       GetGames(reply, delay, over)
  \/ ProcessQueueFromFile
  \/ \E wait \in 0..MaxWait : Confirm(wait)
  \/ ConfirmEOF
  \/ \E detail \in {PaidGame, FailedDetail("timeout")},
        delay \in 0..MaxDelay, over \in 0..MaxOversleep :
       ProcessGame(detail, delay, over)
  \/ TestLimit
  \/ LoopEnd
  \/ WriteGamesLog /\ UNCHANGED recorded
  \/ WriteQueue /\ UNCHANGED recorded

SpecRate == InitRate /\ [][NextRate]_vars

\* ---------------------------------------------------------------- games log write

\* the games log the first run finds: none, an empty file, a file as this
\* program leaves it (no line end after the last record), a file that ends
\* with a line end, a file of two records
OldLogs ==
  {NoFile, TextFile(""), TextFile("909 #Old [Win]"), TextFile("909 #Old [Win]\n"),
   TextFile("808 #Older [Unknown]\n909 #Old [Win]")}

InitWrite ==
  /\ settings = MakeSettings(AllPlatforms, TRUE, FALSE, FALSE, 0, RateLimit, FALSE)
  /\ input_file = TextFile("101\n202\n")
  /\ software_file = NoFile
  /\ games_file \in OldLogs
  /\ queue_file = NoFile
  /\ now = 0
  /\ runs = 0
  /\ pc = "Idle"
  /\ existing_games = {}
  /\ last_request_time = 0
  /\ software_ids = {}
  /\ games = <<>>
  /\ game_ids = <<>>
  /\ total_games = 0
  /\ start_time = 0
  /\ next_item = 1
  /\ processed_count = 0
  /\ denuvo_count = 0
  /\ games_list = <<>>
  /\ queue_data = <<>>
  /\ log = <<>>
  /\ calls = <<>>
  /\ classified = <<>>
  /\ run_start = [software_file |-> NoFile, games_file |-> NoFile,
                  queue_file |-> NoFile]
  /\ catalog_runs = <<>>
  /\ eligible = {}
  /\ recorded = {}
  /\ visited = <<>>

\* the pipeline, run to its end, over a games log that is already there; test
\* mode, with the limit 0, ends the loop before its first item
NextWrite ==
  \/ \E fromFile \in BOOLEAN, testMode \in BOOLEAN : StartProcess(fromFile, testMode)
  \/ GetSoftware(Listing(<<<<"303", "Editor">>>>), 1, 0)
  \/ GetGames(Listing(<<<<"101", "Alpha">>, <<"202", "Beta">>>>), 1, 0)
  \/ ProcessQueueFromFile
  \/ Confirm(1)
  \/ \E detail \in {PaidGame, FailedDetail("timeout")} : ProcessGame(detail, 1, 0)
  \/ TestLimit
  \/ LoopEnd
  \/ WriteGamesLog /\ UNCHANGED recorded
  \/ WriteQueue /\ UNCHANGED recorded

SpecWrite == InitWrite /\ [][NextWrite]_vars

\* ---------------------------------------------------------------- resume

\* how many times the program is started in the runs that resume
MaxResumeRuns == 3

\* the program is started at most MaxResumeRuns times
StartAgain(fromFile, testMode) ==
  runs < MaxResumeRuns /\ NewProcess(fromFile, testMode)

InitResume ==
  /\ settings = MakeSettings(AllPlatforms, TRUE, FALSE, FALSE, 1, RateLimit, FALSE)
  /\ input_file = TextFile("101\n")
  /\ software_file = NoFile
  /\ games_file = NoFile
  /\ queue_file = NoFile
  /\ now = 0
  /\ runs = 0
  /\ pc = "Idle"
  /\ existing_games = {}
  /\ last_request_time = 0
  /\ software_ids = {}
  /\ games = <<>>
  /\ game_ids = <<>>
  /\ total_games = 0
  /\ start_time = 0
  /\ next_item = 1
  /\ processed_count = 0
  /\ denuvo_count = 0
  /\ games_list = <<>>
  /\ queue_data = <<>>
  /\ log = <<>>
  /\ calls = <<>>
  /\ classified = <<>>
  /\ run_start = [software_file |-> NoFile, games_file |-> NoFile,
                  queue_file |-> NoFile]
  /\ catalog_runs = <<>>
  /\ eligible = {}
  /\ recorded = {}
  /\ visited = <<>>

\* runs in normal mode over a library of two games and in file mode over an
\* input file that lists the first of them, with a test limit of one item or
\* without, each of which may be interrupted; what the runs log and queue is
\* recorded
NextResume ==
  \/ \E fromFile, testMode \in BOOLEAN : StartAgain(fromFile, testMode)
  \/ GetSoftware(Listing(<<<<"303", "Editor">>, <<"404", "Sound">>>>), 1, 0)
  \/ GetGames(Listing(<<<<"101", "Alpha">>, <<"202", "Beta">>>>), 1, 0)
  \/ ProcessQueueFromFile
  \/ Confirm(1)
  \/ \E detail \in {PaidGame, FailedDetail("timeout")} : ProcessGame(detail, 1, 0)
  \/ TestLimit
  \/ LoopEnd
  \/ WriteGamesLog /\ recorded' = RecordedAfterLog
  \/ WriteQueue /\ recorded' = RecordedAfterQueue
  \/ \E elapsed \in 0..PendingTicks(1, 0, 1) : Interrupt(elapsed)
  \/ \E written \in 0..2 :
       InterruptCatalogWrite(Listing(<<<<"303", "Editor">>, <<"404", "Sound">>>>),
                             written, 1, 0)
  \/ \E torn \in TornGamesFiles(games_file, settings.queue_from_file) :
       InterruptGamesLogWrite(torn) /\ recorded' = RecordedAfterTornLog
  \/ InterruptQueueWrite
  \/ InterruptAfterQueueWrite /\ recorded' = RecordedAfterQueue

SpecResume == InitResume /\ [][NextResume]_vars

\* ---------------------------------------------------------------- claims

\* the lines of a text, without their line ends
ChompedLines(data) ==
  LET ls == FileLines(data)
  IN  [i \in 1..Len(ls) |->
         IF EndsWith(ls[i], "\n") THEN SubSeq(ls[i], 1, Len(ls[i]) - 1) ELSE ls[i]]

\* the identifier is among those the code reads from the file: it is the text
\* of a line in front of the first " #"
HasRecord(file, id) == id \in IdsOfFile(file)

\* the identifiers of the detail fetches of this process, in order
FetchedIds ==
  LET IsDetail(c) == c.kind = "detail"
      fetches == SelectSeq(calls, IsDetail)
  IN  [i \in 1..Len(fetches) |-> fetches[i].app_id]

Logged(key) == \E i \in 1..Len(log) : log[i].key = key

\* C1 as stated: in every run of the pipeline, no detail fetch is issued for an
\* identifier that is in the games log when the run starts.
C1_NeverRefetched ==
  \A id \in SeqToSet(FetchedIds) : ~HasRecord(run_start.games_file, id)

\* C1, amended: in every normal-mode run (queue_from_file off), no identifier
\* that is in the games log when the run starts is put on the work list, and
\* no detail fetch is issued for it.
C1_NormalModeNeverRefetched ==
  ~settings.queue_from_file
  => \A id \in SeqToSet(FetchedIds) \cup SeqToSet(game_ids) :
       ~HasRecord(run_start.games_file, id)

\* a normal-mode run ended whose library holds an identifier of the games log,
\* and which fetched another identifier
C1_Witness ==
  /\ ~settings.queue_from_file
  /\ pc = "Done"
  /\ \E id \in SeqToSet(Keys(games)) : HasRecord(run_start.games_file, id)
  /\ FetchedIds # <<>>

\* C2 as stated: a successful record whose DRM notice holds "Denuvo Anti-tamper"
\* in any letter case is displayed with the suffix " [DENUVO]", and with
\* filter_denuvo on its queue-eligible list is empty.
C2_DenuvoAnyCase ==
  \A i \in 1..Len(classified) :
    LET c == classified[i]
    IN  ( /\ c.detail.kind = "success"
          /\ c.detail.has_notice
          /\ Contains(Lower(DenuvoSignature), Lower(c.detail.drm_notice)) )
        => /\ EndsWith(c.result.platforms_str, " [DENUVO]")
           /\ settings.filter_denuvo => c.result.queue_platforms = <<>>

\* C3 as stated: after a run that produced a queue entry, the queue file holds
\* exactly one line "{code}|{id}|Public|" per queue-eligible pair of the run, no
\* pair on two lines, and nothing else.
C3_QueueReflectsRun ==
  (pc = "Done" /\ eligible # {})
  => LET lines == ChompedLines(queue_file.data)
     IN  /\ SeqToSet(lines) =
              {pair[1] \o "|" \o pair[2] \o "|Public|" : pair \in eligible}
         /\ Len(lines) = Cardinality(eligible)

\* C4: two consecutive outbound calls of a process, of any kind, start at least
\* rate_limit apart; the shared timestamp is the start of the last call, set
\* after the wait; the first call of the process is not delayed.
C4_RateLimit ==
  /\ \A i \in 1..(Len(calls) - 1) :
       calls[i + 1].started - calls[i].started >= settings.rate_limit
  /\ \A i \in 1..Len(calls) : calls[i].entered <= calls[i].started
  /\ calls # <<>> => /\ calls[1].started = calls[1].entered
                     /\ last_request_time = calls[Len(calls)].started
                     /\ last_request_time <= now

\* a catalog fetch, a library fetch and a detail fetch in a row, the second
\* delayed by the limiter and the third not
C4_Witness ==
  /\ Len(calls) >= 3
  /\ calls[1].kind = "catalog" /\ calls[2].kind = "library"
  /\ calls[3].kind = "detail"
  /\ calls[2].started > calls[2].entered
  /\ calls[3].started = calls[3].entered

\* the games log holds the records of this run: after the old lines when the
\* run appends, alone when it overwrites, and is untouched when there are none
\* (blank lines apart: a write that was cut short after its separator leaves
\* one, and the reader of the log skips them)
GamesLogHasRecords ==
  IF games_list = <<>> THEN games_file = run_start.games_file
  ELSE SelectLines(ChompedLines(games_file.data)) =
         (IF run_start.games_file.exists /\ ~settings.queue_from_file
          THEN SelectLines(ChompedLines(run_start.games_file.data)) ELSE <<>>)
         \o games_list

\* C5: in test mode with limit L and a work list longer than L, the loop ends
\* after exactly L detail fetches, of the first L identifiers in order, with L
\* records, through TestLimitReached (the message is logged), not Completed.
C5_TestModeCap ==
  ( /\ settings.test_mode
    /\ Len(game_ids) > settings.test_limit
    /\ pc \in {"Completed", "TestLimitReached", "Finalizing", "Done"} )
  => /\ FetchedIds = SubSeq(game_ids, 1, settings.test_limit)
     /\ Len(games_list) = settings.test_limit
     /\ \E i \in 1..Len(visited) : visited[i] = "TestLimitReached"
     /\ \A i \in 1..Len(visited) : visited[i] # "Completed"
     /\ Logged("test_mode_limit")
     /\ pc \in {"Finalizing", "Done"} => GamesLogHasRecords

\* a test-mode run with limit 2 over a work list of three has ended
C5_Witness ==
  /\ settings.test_mode
  /\ settings.test_limit = 2
  /\ Len(game_ids) = 3
  /\ pc = "Done"

\* the detail request did not give a usable record: it raised or timed out, its
\* body is malformed (no JSON, or a name that is no string), the identifier is
\* absent or the entry reports failure
Unusable(detail) ==
  \/ detail.kind \in FailureKinds
  \/ detail.kind = "success" /\ ~detail.name_is_str

\* C6 as stated: a detail fetch that raises, times out, returns a malformed body
\* or reports failure is classified Unknown, with no queue-eligible platform and
\* the identifier as name; the run does not enter Error, the loop moves on, no
\* queue line is added, and the games log gains the line of the item.
C6_FailedFetchIsUnknown ==
  \A i \in 1..Len(classified) :
    LET c == classified[i]
        line == c.app_id \o " #" \o c.app_id \o " [Unknown]"
    IN  Unusable(c.detail)
        => /\ c.result = UnknownClassification(c.app_id)
           /\ pc \in {"Running", "Completed", "TestLimitReached", "Finalizing",
                      "Done"}
           /\ \A k \in 1..Len(visited) : visited[k] # "Error"
           /\ next_item = Len(games_list) + 1
           /\ queue_data = c.queue_before
           /\ games_list # <<>> /\ games_list[Len(games_list)] = line
           /\ pc \in {"Finalizing", "Done"}
              => /\ GamesLogHasRecords
                 /\ EndsWith(games_file.data, line)

\* the identifiers the catalog fetch of this run returned
CatalogReplyIds ==
  UNION {{catalog_runs[i].entries[k][1] : k \in 1..Len(catalog_runs[i].entries)} :
           i \in {j \in 1..Len(catalog_runs) : catalog_runs[j].run = runs}}

\* C7: in a normal-mode run, no identifier that is in the catalog file, or that
\* the catalog fetch of the run returned, is on the work list or fetched.
C7_CatalogExcluded ==
  ~settings.queue_from_file
  => \A id \in SeqToSet(FetchedIds) \cup SeqToSet(game_ids) :
       /\ ~HasRecord(run_start.software_file, id)
       /\ id \notin CatalogReplyIds

\* a normal-mode run has ended that fetched a game while its library held an
\* identifier that an earlier run had put in the catalog file and that the
\* catalog fetch of this run did not return
C7_Witness ==
  /\ ~settings.queue_from_file
  /\ pc = "Done"
  /\ FetchedIds # <<>>
  /\ CatalogReplyIds # {}
  /\ \E id \in SeqToSet(Keys(games)) :
       HasRecord(run_start.software_file, id) /\ id \notin CatalogReplyIds

\* the calls of get_software in `history` only appended to the catalog file
CatalogAppendOnly(history) ==
  \A i \in 1..Len(history) :
    LET r == history[i]
        added == ChompedLines(SubSeq(r.after.data, Len(r.before.data) + 1,
                                     Len(r.after.data)))
        ids == {r.entries[k][1] : k \in 1..Len(r.entries)}
    IN  /\ r.after.exists
        /\ StartsWith(r.after.data, r.before.data)
        /\ \A k \in 1..Len(added) :
             \E id \in ids : /\ StartsWith(added[k], id \o " #")
                             /\ ~HasRecord(r.before, id)
                             /\ \A m \in 1..Len(added) :
                                  StartsWith(added[m], id \o " #") => m = k
        /\ \A id \in ids : HasRecord(r.after, id)
        /\ (i > 1 /\ history[i - 1].entries = r.entries)
           => /\ r.before = history[i - 1].after
              /\ r.after = r.before

\* C8: get_software only appends to the catalog file: the old text stays in
\* front, every added line is a record of an identifier of the reply that had
\* none, no identifier gets two, every identifier of the reply has a record
\* afterwards; a second run with the same reply leaves the file as it was.
\* Stated of every step that runs get_software.
C8_CatalogAppendOnly ==
  [][catalog_runs' # catalog_runs => CatalogAppendOnly(catalog_runs')]_vars

\* get_software ran twice against the same catalog, which repeats an identifier
C8_Witness ==
  /\ Len(catalog_runs) = 2
  /\ catalog_runs[1].entries = catalog_runs[2].entries
  /\ Len(catalog_runs[1].entries) = 2
  /\ catalog_runs[1].entries[1][1] = catalog_runs[1].entries[2][1]

\* C9: a successful record with is_free true has an empty queue-eligible list,
\* whatever the platforms, the enable flags, the DRM notice and filter_denuvo.
C9_FreeNeverQueued ==
  \A i \in 1..Len(classified) :
    LET c == classified[i]
    IN  (c.detail.kind = "success" /\ c.detail.is_free)
        => c.result.queue_platforms = <<>>

\* a free title, supported on every platform, all enabled, the DRM filter off
C9_Witness ==
  /\ classified # <<>>
  /\ classified[1].detail.kind = "success"
  /\ classified[1].detail.is_free
  /\ classified[1].detail.platforms = PlatformNames
  /\ \A p \in PlatformNames : settings.platforms[p]
  /\ ~settings.filter_denuvo
  /\ classified[1].result.platforms_str = "Win/Mac/Lin"

\* C10: while a run that has not been terminated has no queue entry the queue
\* file is as it was when the run started, and a run that ends without one has logged "no games" and not the
\* creation of a queue.
C10_NoEntriesQueueUntouched ==
  /\ (pc # "Killed" /\ queue_data = <<>>) => queue_file = run_start.queue_file
  /\ (pc = "Done" /\ queue_data = <<>>)
     => Logged("no_games") /\ ~Logged("created_queue")

\* a run that processed items ended without a queue entry, over a queue file
\* of an earlier run
C10_Witness ==
  /\ pc = "Done"
  /\ queue_data = <<>>
  /\ games_list # <<>>
  /\ run_start.queue_file.exists
  /\ queue_file = run_start.queue_file

\* the process has been in the state
Visited(state) == \E i \in 1..Len(visited) : visited[i] = state

\* C11 as stated: in file mode and in normal mode, a run whose work list is
\* empty goes from ComputingWorkList to Done with "no games" logged, without
\* AwaitingConfirmation (no blocking read) and without Running.
C11_EmptyWorkListSkipsGate ==
  (pc # "Killed" /\ game_ids = <<>>)
  => /\ ~Visited("AwaitingConfirmation")
     /\ ~Visited("Running")
     /\ pc = "Done" => Logged("no_games")

\* the platforms in the order of the claim: name, abbreviation, queue code
C13_Rows ==
  <<<<"windows", "Win", "win64">>, <<"mac", "Mac", "macos">>,
    <<"linux", "Lin", "lin64">>>>

\* C13: for a successful record the queue-eligible list is, in the order
\* windows, mac, linux, the codes of the platforms that are supported and
\* enabled, when the title is not free and (no DRM is detected or filter_denuvo
\* is off); the display is the abbreviations of the supported and enabled
\* platforms joined by "/", or "Unknown", followed by " [DENUVO]" when DRM is
\* detected.
C13_EligibilityRule ==
  \A i \in 1..Len(classified) :
    LET c == classified[i]
        d == c.detail
        drm == d.has_notice /\ Contains("Denuvo Anti-tamper", d.drm_notice)
        Shown(row) == row[1] \in d.platforms /\ settings.platforms[row[1]]
        Queued(row) ==
          Shown(row) /\ ~d.is_free /\ (~drm \/ ~settings.filter_denuvo)
        shown == SelectSeq(C13_Rows, Shown)
        queued == SelectSeq(C13_Rows, Queued)
    IN  d.kind = "success"
        => /\ c.result.queue_platforms = [k \in 1..Len(queued) |-> queued[k][3]]
           /\ c.result.platforms_str =
                (IF shown = <<>> THEN "Unknown"
                 ELSE Join([k \in 1..Len(shown) |-> shown[k][2]], "/"))
                \o (IF drm THEN " [DENUVO]" ELSE "")

\* a paid title with the DRM notice, on Windows and Linux, every platform
\* enabled and the filter off: both codes are queue-eligible
C13_Witness ==
  /\ classified # <<>>
  /\ classified[1].detail.kind = "success"
  /\ classified[1].detail.drm_notice = "Denuvo Anti-tamper"
  /\ ~classified[1].detail.is_free
  /\ classified[1].detail.platforms = {"windows", "linux"}
  /\ \A p \in PlatformNames : settings.platforms[p]
  /\ ~settings.filter_denuvo
  /\ classified[1].result.queue_platforms = <<"win64", "lin64">>
  /\ classified[1].result.platforms_str = "Win/Lin [DENUVO]"

\* p is an initial part of s
IsPrefix(p, s) == Len(p) <= Len(s) /\ SubSeq(s, 1, Len(p)) = p

\* the pipeline states the process went through: the library fetch belongs to
\* ComputingWorkList, and the way the process stopped early is left out
Stages ==
  LET IsStage(state) == state \notin {"FetchingGames", "Error", "Killed"}
  IN  SelectSeq(visited, IsStage)

\* C14: in a run with a non-empty work list no detail fetch is issued, and
\* neither the games log nor the queue file is written, before the confirmation
\* is received; the states are visited only in the order ComputingWorkList,
\* AwaitingConfirmation, Running, Completed or TestLimitReached, Finalizing,
\* Done.
C14_GateOrdering ==
  /\ ~Visited("Running")
     => /\ FetchedIds = <<>>
        /\ games_file = run_start.games_file
        /\ queue_file = run_start.queue_file
  /\ (pc = "Killed" \/ game_ids # <<>>)
     => \E ending \in {"Completed", "TestLimitReached"} :
          IsPrefix(Stages, <<"ComputingWorkList", "AwaitingConfirmation",
                             "Running", ending, "Finalizing", "Done">>)
  /\ \A i \in 1..Len(visited) :
       visited[i] \in {"Error", "Killed", "Done"} => i = Len(visited)

\* a normal-mode run over a non-empty work list went through every state and
\* wrote both files
C14_Witness ==
  /\ pc = "Done"
  /\ game_ids # <<>>
  /\ visited = <<"ComputingWorkList", "FetchingGames", "AwaitingConfirmation",
                 "Running", "Completed", "Finalizing", "Done">>
  /\ FetchedIds # <<>>
  /\ games_file # run_start.games_file
  /\ queue_file # run_start.queue_file

\* the state the process was in before its last move
LastStage == IF Len(visited) >= 2 THEN visited[Len(visited) - 1] ELSE "Idle"

\* C15: from the confirmation until the loop has ended the games log and the
\* queue file are as they were when the run started, and a process interrupted
\* while Running leaves both as they were.
C15_NoWritesWhileRunning ==
  ( \/ pc \in {"Running", "Completed", "TestLimitReached"}
    \/ pc = "Killed" /\ LastStage \in {"Running", "Completed", "TestLimitReached"} )
  => /\ games_file = run_start.games_file
     /\ queue_file = run_start.queue_file

\* a second run was interrupted while Running, over the files of the first
C15_Witness ==
  /\ pc = "Killed"
  /\ LastStage = "Running"
  /\ run_start.games_file.exists
  /\ run_start.queue_file.exists
  /\ games_file = run_start.games_file
  /\ queue_file = run_start.queue_file

\* C17: a file-mode run without an input file logs an error and ends: no
\* confirmation prompt, no outbound call, and the games log, the queue file and
\* the catalog file as they were.
C17_MissingInputAborts ==
  (settings.queue_from_file /\ ~input_file.exists /\ pc \notin {"Idle", "Killed"})
  => /\ pc \in {"ComputingWorkList", "Error"}
     /\ calls = <<>>
     /\ ~Visited("AwaitingConfirmation")
     /\ ~Logged("processing_ready")
     /\ games_file = run_start.games_file
     /\ queue_file = run_start.queue_file
     /\ software_file = run_start.software_file
     /\ pc = "Error" => log = <<Msg("error", <<>>)>>

\* a file-mode run without an input file has ended, after a run that left a
\* games log, a queue file and a catalog
C17_Witness ==
  /\ settings.queue_from_file
  /\ ~input_file.exists
  /\ pc = "Error"
  /\ games_file.exists /\ queue_file.exists /\ software_file.exists

\* the progress lines of this process, in order
ProgressLines ==
  LET IsProgress(m) == m.key = "progress" IN SelectSeq(log, IsProgress)

\* C19: a progress line is emitted only with a processed count p such that
\* 1 <= p < total, the total being min(work list size, test limit) in test mode
\* and the work list size otherwise: none precedes the first detail fetch, the
\* division by p is defined, the percentage is strictly between 0 and 100, at
\* least one game remains.
C19_ProgressBounds ==
  LET total == IF settings.test_mode /\ settings.test_limit < Len(game_ids)
               THEN settings.test_limit ELSE Len(game_ids)
  IN  /\ \A k \in 1..Len(ProgressLines) :
           LET p == ProgressLines[k].args[1]
               percent100 == p * 100
           IN  /\ 1 <= p /\ p < total
               /\ ProgressLines[k].args[2] = total
               /\ 0 < percent100 /\ percent100 < 100 * total
               /\ total - p >= 1
               /\ p = k
               /\ ProgressLines[k].args[4] >= 0
      /\ FetchedIds = <<>> => ProgressLines = <<>>
      /\ pc # "Killed" /\ FetchedIds # <<>>
         => Len(ProgressLines) = Len(FetchedIds) - 1

\* a run in test mode with limit 2 over three entries has ended, with its one
\* progress line: 1 of 2
C19_Witness ==
  /\ pc = "Done"
  /\ Len(game_ids) = 3
  /\ settings.test_mode /\ settings.test_limit = 2
  /\ Len(ProgressLines) = 1
  /\ ProgressLines[1].args[1] = 1 /\ ProgressLines[1].args[2] = 2

\* C20: at every point of the loop the number of accumulated records equals the
\* processed count and the number of detail fetches of the run, the records are
\* in work-list order, the Denuvo counter is at most the processed count, and
\* every accumulated queue line names an identifier that has a record.
C20_Accumulators ==
  pc \in {"Running", "Completed", "TestLimitReached", "Finalizing", "Done"}
  => /\ Len(games_list) = processed_count
     /\ Len(FetchedIds) = processed_count
     /\ next_item = processed_count + 1
     /\ processed_count <= Len(game_ids)
     /\ \A i \in 1..Len(games_list) :
          /\ FetchedIds[i] = game_ids[i]
          /\ StartsWith(games_list[i], game_ids[i] \o " #")
     /\ 0 <= denuvo_count /\ denuvo_count <= processed_count
     /\ \A k \in 1..Len(queue_data) :
          \E i \in 1..Len(games_list), code \in {"win64", "macos", "lin64"} :
            queue_data[k] = code \o "|" \o game_ids[i] \o "|Public|"

\* the loop is under way: two items done, one of them failed, a Denuvo title
\* counted, queue lines accumulated, one item left
C20_Witness ==
  /\ pc = "Running"
  /\ processed_count = 2
  /\ Len(game_ids) = 3
  /\ denuvo_count = 1
  /\ queue_data # <<>>
  /\ \E i \in 1..Len(games_list) : EndsWith(games_list[i], "[Unknown]")

\* every record of the run has the form "{identifier} #{name} [{summary}]"
RecordsWellFormed ==
  \A i \in 1..Len(games_list) :
    LET head == game_ids[i] \o " #"
        rest == SubSeq(games_list[i], Len(head) + 1, Len(games_list[i]))
    IN  /\ StartsWith(games_list[i], head)
        /\ Contains(" [", rest)
        /\ EndsWith(rest, "]")

\* C12 as stated: at Finalizing, in file mode or without a games log the log
\* holds exactly the records of the run and nothing from before; in normal mode
\* over an existing log the old lines stay in front and the records follow,
\* after a blank line when the old file was not empty.
C12_GamesLogWriteMode ==
  pc \in {"Finalizing", "Done"}
  => LET old == run_start.games_file
     IN  /\ RecordsWellFormed
         /\ IF settings.queue_from_file \/ ~old.exists
            THEN ChompedLines(games_file.data) = games_list
            ELSE IF games_list = <<>> THEN games_file = old
            ELSE ChompedLines(games_file.data) =
                   ChompedLines(old.data)
                   \o (IF old.data # "" THEN <<"">> ELSE <<>>)
                   \o games_list

\* C12, amended: a run without a record leaves the games log as it was; a run
\* with records, in file mode or without a games log, leaves exactly its
\* records, joined by line ends; in normal mode over an existing log the old
\* text stays in front, followed by one line end when the old file was not
\* empty, and by the records joined by line ends.
C12_GamesLogWritten ==
  pc \in {"Finalizing", "Done"}
  => LET old == run_start.games_file
         text == Join(games_list, "\n")
     IN  /\ RecordsWellFormed
         /\ IF games_list = <<>> THEN games_file = old
            ELSE /\ games_file.exists
                 /\ IF settings.queue_from_file \/ ~old.exists
                    THEN games_file.data = text
                    ELSE games_file.data =
                           old.data \o (IF old.data # "" THEN "\n" ELSE "") \o text

\* a normal-mode run appended two records to a log of two records, and the
\* file has four lines
C12_Witness ==
  /\ pc = "Done"
  /\ ~settings.queue_from_file
  /\ Len(ChompedLines(run_start.games_file.data)) = 2
  /\ Len(games_list) = 2
  /\ Len(ChompedLines(games_file.data)) = 4

\* the identifiers this process has put on its work list or fetched
Handled == SeqToSet(FetchedIds) \cup SeqToSet(game_ids)

\* a normal-mode run that has written its games log has a record, on disk, of
\* every identifier it classified Unknown
UnknownIsLogged ==
  (pc \in {"Finalizing", "Done"} /\ ~settings.queue_from_file)
  => \A i \in 1..Len(games_list) :
       EndsWith(games_list[i], " [Unknown]")
       => /\ HasRecord(games_file, game_ids[i])
          /\ \E r \in recorded : r.id = game_ids[i] /\ r.unknown /\ r.kept

\* C16 as stated: an identifier classified Unknown in a normal-mode run that
\* reaches Finalizing is written to the games log, and no later normal-mode run
\* puts it on its work list or fetches it.
C16_FailedNeverRetried ==
  /\ UnknownIsLogged
  /\ ~settings.queue_from_file
     => \A r \in recorded : (r.unknown /\ ~r.current) => r.id \notin Handled

\* C16, amended: an identifier classified Unknown in a normal-mode run that
\* completes its games-log write is in the games log, and no later normal-mode
\* run puts it on its work list or fetches it, as long as no file-mode run has
\* opened the games log for writing in between.
C16_FailedNotRetriedWhileLogged ==
  /\ UnknownIsLogged
  /\ ~settings.queue_from_file
     => \A r \in recorded :
          (r.unknown /\ ~r.current /\ r.kept)
          => r.id \notin Handled /\ HasRecord(run_start.games_file, r.id)

\* a later normal-mode run has ended that fetched one game of the library and
\* left out the other, which an earlier run had logged as Unknown
C16_Witness ==
  /\ pc = "Done"
  /\ ~settings.queue_from_file
  /\ FetchedIds # <<>>
  /\ \E r \in recorded :
       /\ r.unknown /\ ~r.current /\ r.kept
       /\ r.id \in SeqToSet(Keys(games))
       /\ r.id \notin Handled

\* the queue lines that earlier runs logged but never wrote, for identifiers
\* whose record no file-mode run has overwritten (all = FALSE), or for any
\* identifier (all = TRUE)
LostLines(all) ==
  UNION {r.lines : r \in {q \in recorded :
                            ~q.current /\ q.lines # {} /\ (all \/ q.kept)}}

\* the lines of the queue file
QueueFileLines == SeqToSet(ChompedLines(queue_file.data))

\* the lines this process has added to the queue file
AddedQueueLines ==
  QueueFileLines \ SeqToSet(ChompedLines(run_start.queue_file.data))

\* C18 as stated: when a process stops between the two writes, the identifier
\* is in the games log and its queue lines are not in the queue file, and no
\* later normal-mode run adds those lines.
C18_CrashWindowNeverRepaired ==
  /\ \A r \in recorded :
       (pc = "Killed" /\ r.current /\ r.lines # {})
       => HasRecord(games_file, r.id)
  /\ ~settings.queue_from_file
     => LostLines(TRUE) \cap (SeqToSet(queue_data) \cup AddedQueueLines) = {}

\* C18, amended: when a process stops between the two writes, the identifier
\* is in the games log and its queue lines are not in the queue file, and no
\* later normal-mode run adds those lines, as long as no file-mode run has
\* opened the games log for writing in between.
C18_CrashWindowNotRepairedWhileLogged ==
  /\ \A r \in recorded :
       (pc = "Killed" /\ r.current /\ r.lines # {})
       => HasRecord(games_file, r.id)
  /\ ~settings.queue_from_file
     => LostLines(FALSE) \cap (SeqToSet(queue_data) \cup AddedQueueLines) = {}

\* a later normal-mode run has ended and written queue lines, after an earlier
\* one stopped between the two writes: the identifier of the earlier run is in
\* the games log and the queue file has none of its lines
C18_Witness ==
  /\ pc = "Done"
  /\ ~settings.queue_from_file
  /\ AddedQueueLines # {}
  /\ \E r \in recorded :
       /\ ~r.current /\ r.kept /\ r.lines # {}
       /\ HasRecord(games_file, r.id)
       /\ r.lines \cap QueueFileLines = {}

====
